---- MODULE Spec2Model ----
(***************************************************************************)
(* Model of custom_components/hildebrandglow_dcc/sensor.py: the Usage and  *)
(* Cost historical sensors, the fetch of half-hourly readings and the      *)
(* hourly statistics aggregation (async_calculate_statistic_data).         *)
(*                                                                         *)
(* Time is counted in whole minutes.  A datetime is the number of minutes  *)
(* since midnight UTC of the first modelled day; a local datetime is the   *)
(* wall-clock minute count in the configured time zone (UTC + tz).         *)
(* Meter values are exact integers: floating point rounding is not         *)
(* modelled.  Cost readings arrive in pence and are drawn from multiples   *)
(* of 100, where the division by 100 of the code is exact.                 *)
(***************************************************************************)
EXTENDS Integers, Sequences, FiniteSets, TLC

VARIABLES
    now,        \* wall clock (datetime.now()), minutes, UTC
    tz,         \* UTC offset of the configured time zone (dtutil.as_local)
    pat,        \* the meter's half-hourly consumption pattern (upstream feed)
    ticks,      \* number of poll intervals elapsed
    failures,   \* number of failed get_readings requests so far
    api,        \* call harness: the timestamps of the readings the API returns
    usage,      \* the Usage sensor and its statistics row
    cost,       \* the Cost sensor and its statistics row
    tariff,     \* the TariffCoordinator with its Standing and Rate sensors
    setup       \* async_setup_entry: the account, the loop position, entities

vars == <<now, tz, pat, ticks, failures, api, usage, cost, tariff, setup>>

----------------------------------------------------------------------------
(* Program constants *)

MinutesPerHour == 60        \* dt.replace(minute=0, second=0, microsecond=0)
MinSamples == 2             \* if len(collection) < 2: continue
ShiftMinutes == 1           \* reading[0] + timedelta(minutes=1)
PenceDivisor == 100         \* reading[1].value / 100
FetchHours == 12            \* datetime.now() - timedelta(hours=12)
PrecisionMinutes == 30      \* precision: str = "PT30M"
UpdateIntervalMinutes == 15 \* self.UPDATE_INTERVAL = timedelta(minutes = 15)

(* Bounds of the model *)

MaxLen == 5         \* call harness: longest list of readings handed over
MaxTicks == 5       \* polling: number of poll intervals that elapse
MaxFailures == 1    \* polling: number of get_readings requests that fail
PatLen == 3         \* polling: period of the meter's consumption pattern

Units == {1, 2}                     \* consumption of one half-hour slot
Priors == {5}                       \* call harness: latest["sum"] values
Offsets == {0, 60}                  \* GMT and BST
HarnessTimes == {600, 630, 659, 660}  \* 10:00, 10:30, 10:59, 11:00 UTC
StartTimes == {603, 610}            \* 10:03 and 10:10 UTC

----------------------------------------------------------------------------
(* Values *)

None == [ok |-> FALSE, data |-> <<>>]       \* daily_data's "return None"
Readings(list) == [ok |-> TRUE, data |-> list]

NoLatest == <<>>                            \* latest = None
Latest(s) == <<[sum |-> s]>>                \* latest = {"sum": s, ...}

RECURSIVE SumSeq(_)
SumSeq(s) == IF s = <<>> THEN 0 ELSE s[1] + SumSeq(Tail(s))

RECURSIVE Gcd(_, _)
Gcd(a, b) == IF b = 0 THEN a ELSE Gcd(b, a % b)

States(collection) == [i \in 1..Len(collection) |-> collection[i].state]

(* statistics.mean: the exact mean, kept as a fraction in lowest terms *)
mean(data) ==
    LET total == SumSeq(data)
        n == Len(data)
        g == Gcd(total, n)
    IN  IF g = 0 THEN [num |-> 0, den |-> 1]
        ELSE [num |-> total \div g, den |-> n \div g]

(* dtutil.as_local: the same instant on the wall clock of the time zone *)
as_local(dt) == dt + tz

----------------------------------------------------------------------------
(* async_calculate_statistic_data *)

hour_block_for_hist_state(hist_state) ==
    hist_state.dt - (hist_state.dt % MinutesPerHour)

(* length of the run of equal keys that starts the list *)
RECURSIVE RunLen(_, _)
RunLen(s, key) ==
    IF s = <<>> \/ hour_block_for_hist_state(s[1]) # key THEN 0
    ELSE 1 + RunLen(Tail(s), key)

(* a grouping that collects all the readings of an hour, adjacent or not *)
RECURSIVE groupby_Mut(_)
groupby_Mut(hist_states) ==
    IF hist_states = <<>> THEN <<>>
    ELSE LET key == hour_block_for_hist_state(hist_states[1])
             same(x) == hour_block_for_hist_state(x) = key
             other(x) == hour_block_for_hist_state(x) # key
         IN  <<[dt |-> key, collection |-> SelectSeq(hist_states, same)]>>
             \o groupby_Mut(SelectSeq(hist_states, other))

(* itertools.groupby(hist_states, key=hour_block_for_hist_state) *)
RECURSIVE groupby(_)
groupby(hist_states) ==
    IF hist_states = <<>> THEN <<>>
    ELSE LET key == hour_block_for_hist_state(hist_states[1])
             n == RunLen(hist_states, key)
         IN  <<[dt |-> key, collection |-> SubSeq(hist_states, 1, n)]>>
             \o groupby(SubSeq(hist_states, n + 1, Len(hist_states)))

InitialAccumulated_Mut(latest) == 0

InitialAccumulated(latest) == IF latest # NoLatest THEN latest[1].sum ELSE 0

TooFewSamples_Mut(collection) == Len(collection) < 1

TooFewSamples_Strict(collection) == Len(collection) <= MinSamples

TooFewSamples(collection) == Len(collection) < MinSamples

Accumulate_Mut(accumulated, partial_sum) == partial_sum

Accumulate(accumulated, partial_sum) == accumulated + partial_sum

UsageStatisticData(dt, collection, accumulated) ==
    [start |-> dt, state |-> SumSeq(States(collection)), sum |-> accumulated]

CostStatisticData(dt, collection, accumulated) ==
    [start |-> dt, state |-> SumSeq(States(collection)),
     mean |-> mean(States(collection)), sum |-> accumulated]

(* a loop that puts each statistic in front of the list *)
RECURSIVE UsageLoop_Mut(_, _)
UsageLoop_Mut(groups, accumulated) ==
    IF groups = <<>> THEN <<>>
    ELSE LET collection == groups[1].collection IN
         IF TooFewSamples(collection)
         THEN UsageLoop_Mut(Tail(groups), accumulated)
         ELSE LET acc == Accumulate(accumulated, SumSeq(States(collection)))
              IN  UsageLoop_Mut(Tail(groups), acc)
                  \o <<UsageStatisticData(groups[1].dt, collection, acc)>>

(* the loop body of Usage.async_calculate_statistic_data *)
RECURSIVE UsageLoop(_, _)
UsageLoop(groups, accumulated) ==
    IF groups = <<>> THEN <<>>
    ELSE LET collection == groups[1].collection IN
         IF TooFewSamples(collection) THEN UsageLoop(Tail(groups), accumulated)
         ELSE LET acc == Accumulate(accumulated, SumSeq(States(collection)))
              IN  <<UsageStatisticData(groups[1].dt, collection, acc)>>
                  \o UsageLoop(Tail(groups), acc)

Usage_async_calculate_statistic_data(hist_states, latest) ==
    UsageLoop(groupby(hist_states), InitialAccumulated(latest))

(* the loop body of HistoricalSensorMixin.async_calculate_statistic_data *)
RECURSIVE MixinLoop(_, _)
MixinLoop(groups, accumulated) ==
    IF groups = <<>> THEN <<>>
    ELSE LET collection == groups[1].collection IN
         IF TooFewSamples(collection) THEN MixinLoop(Tail(groups), accumulated)
         ELSE LET acc == Accumulate(accumulated, SumSeq(States(collection)))
              IN  <<CostStatisticData(groups[1].dt, collection, acc)>>
                  \o MixinLoop(Tail(groups), acc)

Mixin_async_calculate_statistic_data(hist_states, latest) ==
    MixinLoop(groupby(hist_states), InitialAccumulated(latest))

----------------------------------------------------------------------------
(* async_update_historical *)

should_update == TRUE

(* the timestamp is taken without the shift *)
UsageHistoricalState_Mut(reading) ==
    [state |-> reading.value, dt |-> as_local(reading.dt)]

UsageHistoricalState(reading) ==
    [state |-> reading.value, dt |-> as_local(reading.dt + ShiftMinutes)]

(* the minute is subtracted instead of added *)
CostHistoricalState_Mut(reading) ==
    [state |-> reading.value \div PenceDivisor,
     dt |-> as_local(reading.dt - ShiftMinutes)]

CostHistoricalState(reading) ==
    [state |-> reading.value \div PenceDivisor,
     dt |-> as_local(reading.dt + ShiftMinutes)]

UsageHistStates(readings) ==
    [i \in 1..Len(readings) |-> UsageHistoricalState(readings[i])]

CostHistStates(readings) ==
    [i \in 1..Len(readings) |-> CostHistoricalState(readings[i])]

(* a failed fetch is taken for an empty list of readings *)
Usage_async_update_historical_Mut(self, readings) ==
    IF ~self.initialised
    THEN [self EXCEPT !.historical_states = UsageHistStates(readings.data),
                      !.initialised = TRUE,
                      !.raised = FALSE]
    ELSE [self EXCEPT !.historical_states = UsageHistStates(readings.data),
                      !.raised = FALSE]

(* "for reading in readings" raises TypeError when readings is None: the   *)
(* handler ends there, before any attribute is assigned.                   *)
Usage_async_update_historical(self, readings) ==
    IF ~self.initialised
    THEN IF readings = None THEN [self EXCEPT !.raised = TRUE]
         ELSE [self EXCEPT !.historical_states = UsageHistStates(readings.data),
                           !.initialised = TRUE,
                           !.raised = FALSE]
    ELSE IF should_update
         THEN IF readings = None THEN [self EXCEPT !.raised = TRUE]
              ELSE [self EXCEPT
                      !.historical_states = UsageHistStates(readings.data),
                      !.raised = FALSE]
         ELSE [self EXCEPT !.raised = FALSE]

Cost_async_update_historical(self, readings) ==
    IF ~self.initialised
    THEN IF readings = None THEN [self EXCEPT !.raised = TRUE]
         ELSE [self EXCEPT !.historical_states = CostHistStates(readings.data),
                           !.initialised = TRUE,
                           !.raised = FALSE]
    ELSE IF should_update
         THEN IF readings = None THEN [self EXCEPT !.raised = TRUE]
              ELSE [self EXCEPT
                      !.historical_states = CostHistStates(readings.data),
                      !.raised = FALSE]
         ELSE [self EXCEPT !.raised = FALSE]

----------------------------------------------------------------------------
(* daily_data *)

(* the upstream feed: one reading per half-hour slot *)
FeedUnit(t) == pat[((t \div PrecisionMinutes) % PatLen) + 1]

RawValue(kind, unit) == IF kind = "cost" THEN unit * PenceDivisor ELSE unit

(* resource.get_readings(t_from, t_to, "PT30M", "sum", True): the readings *)
(* of the slots in [t_from, t_to], oldest first                            *)
get_readings(kind, t_from, t_to) ==
    LET first == ((t_from + PrecisionMinutes - 1) \div PrecisionMinutes)
                 * PrecisionMinutes
        n == IF t_to < first THEN 0
             ELSE ((t_to - first) \div PrecisionMinutes) + 1
    IN  [i \in 1..n |->
            [dt |-> first + (i - 1) * PrecisionMinutes,
             value |-> RawValue(kind,
                                FeedUnit(first + (i - 1) * PrecisionMinutes))]]

(* only the current instant is requested *)
WindowFrom_Mut(t) == t

WindowFrom(t) == t - FetchHours * MinutesPerHour

(* request_ok = FALSE: get_readings raises, the error is logged and None   *)
(* is returned                                                             *)
daily_data(kind, request_ok) ==
    LET t_from == WindowFrom(now)
        t_to == now
    IN  IF request_ok THEN Readings(get_readings(kind, t_from, t_to))
        ELSE None

----------------------------------------------------------------------------
(* One polling cycle of a sensor: async_update_historical, then the        *)
(* statistics of the sensor's historical states are calculated from the    *)
(* latest stored statistic and the last one emitted is stored.  An         *)
(* exception raised by async_update_historical ends the cycle.             *)

NewSensor(latest) ==
    [initialised |-> FALSE,
     historical_states |-> <<>>,    \* _attr_historical_states
     latest |-> latest,             \* the latest stored statistic
     due |-> TRUE,                  \* a poll is scheduled
     raised |-> FALSE,              \* the last cycle ended in an exception
     calls |-> 0,                   \* aggregation calls made (0, 1, 2 = more)
     ret |-> <<>>,                  \* result of the last aggregation call
     prior |-> NoLatest,            \* "latest" of the last aggregation call
     handed |-> <<>>,               \* hist_states of the last aggregation call
     t_from |-> 0,                  \* window start of the last fetch
     prevRet |-> <<>>,              \* the same of the call before it
     prevPrior |-> NoLatest,
     prevHanded |-> <<>>,
     prevTo |-> 0,                  \* window end of the fetch before the last
     lastTo |-> 0,                  \* window end of the last fetch
     deferred |-> {},               \* trailing buckets omitted by some call
     emitted |-> {}]                \* [start, state] of every statistic emitted

TrailingIncomplete(hist_states) ==
    LET groups == groupby(hist_states) IN
    IF groups = <<>> THEN {}
    ELSE IF TooFewSamples(groups[Len(groups)].collection)
         THEN {groups[Len(groups)].dt}
         ELSE {}

StoredLatest(latest, ret) ==
    IF ret = <<>> THEN latest ELSE Latest(ret[Len(ret)].sum)

Write(self, ret) ==
    [self EXCEPT
        !.latest = StoredLatest(self.latest, ret),
        !.calls = IF @ < 2 THEN @ + 1 ELSE @,
        !.ret = ret,
        !.prior = self.latest,
        !.handed = self.historical_states,
        !.prevRet = self.ret,
        !.prevPrior = self.prior,
        !.prevHanded = self.handed,
        !.deferred = @ \cup TrailingIncomplete(self.historical_states),
        !.emitted = @ \cup {[start |-> ret[i].start, state |-> ret[i].state] :
                             i \in 1..Len(ret)}]

UsageCycle(self, readings) ==
    LET updated == Usage_async_update_historical(self, readings) IN
    IF updated.raised THEN updated
    ELSE Write(updated,
               Usage_async_calculate_statistic_data(updated.historical_states,
                                                    updated.latest))

CostCycle(self, readings) ==
    LET updated == Cost_async_update_historical(self, readings) IN
    IF updated.raised THEN updated
    ELSE Write(updated,
               Mixin_async_calculate_statistic_data(updated.historical_states,
                                                    updated.latest))

Fetched(self, readings) ==
    IF readings = None THEN self
    ELSE [self EXCEPT !.t_from = WindowFrom(now), !.prevTo = self.lastTo,
                      !.lastTo = now]

----------------------------------------------------------------------------
(* TariffCoordinator and the Standing and Rate sensors that listen to it.  *)
(* The coordinator is polled only while it has subscribers; the Standing   *)
(* and Rate sensors are disabled by default.  Tariff values are in pence   *)
(* and drawn from multiples of 100.                                        *)

Tariffs == {[rate |-> 2000, standing_charge |-> 4000],
            [rate |-> 3000, standing_charge |-> 4000]}

NoTariff == <<>>                            \* tariff_data's "return None"

(* request_ok = FALSE: get_tariff raises, the error is logged and None is  *)
(* returned                                                                *)
tariff_data(request_ok, value) == IF request_ok THEN <<value>> ELSE NoTariff

NewCoordinator(subscribed) ==
    [subscribed |-> subscribed,
     rate_initialised |-> FALSE,
     standing_initialised |-> FALSE,
     data |-> NoTariff,             \* coordinator.data
     due |-> subscribed,            \* a refresh is scheduled
     fetched_at |-> -1,             \* time of the last tariff_data call
     standing_value |-> <<>>,       \* Standing._attr_native_value
     rate_value |-> <<>>]           \* Rate._attr_native_value

(* fetch is what tariff_data returns if it is called *)
TariffCoordinator_async_update_data(self, fetch) ==
    IF ~self.standing_initialised
    THEN IF ~self.rate_initialised
         THEN [self EXCEPT !.rate_initialised = TRUE,
                           !.data = fetch, !.fetched_at = now]
         ELSE [self EXCEPT !.standing_initialised = TRUE,
                           !.data = fetch, !.fetched_at = now]
    ELSE IF should_update
         THEN [self EXCEPT !.data = fetch, !.fetched_at = now]
         ELSE [self EXCEPT !.data = NoTariff]

Standing_handle_coordinator_update(self) ==
    IF self.data # NoTariff
    THEN [self EXCEPT !.standing_value =
                        <<self.data[1].standing_charge \div PenceDivisor>>]
    ELSE self

Rate_handle_coordinator_update(self) ==
    IF self.data # NoTariff
    THEN [self EXCEPT !.rate_value = <<self.data[1].rate \div PenceDivisor>>]
    ELSE self

(* one refresh: the data is updated, then the listeners are called *)
TariffCycle(self, fetch) ==
    Rate_handle_coordinator_update(
        Standing_handle_coordinator_update(
            TariffCoordinator_async_update_data(self, fetch)))

----------------------------------------------------------------------------
(* async_setup_entry has not been started *)

NoSetup == [pc |-> "idle"]

----------------------------------------------------------------------------
(* The polling sensors *)

Init ==
    /\ now \in StartTimes
    /\ tz \in Offsets
    /\ pat \in [1..PatLen -> Units]
    /\ ticks = 0
    /\ failures = 0
    /\ api = <<>>
    /\ usage = NewSensor(NoLatest)
    /\ cost = NewSensor(NoLatest)
    /\ tariff = NewCoordinator(FALSE)
    /\ setup = NoSetup

(* the poll interval elapses: the sensors are polled again, and so is the  *)
(* coordinator if it has subscribers                                       *)
Tick ==
    /\ ~usage.due
    /\ ~cost.due
    /\ ~tariff.due
    /\ ticks < MaxTicks
    /\ now' = now + UpdateIntervalMinutes
    /\ ticks' = ticks + 1
    /\ usage' = [usage EXCEPT !.due = TRUE]
    /\ cost' = [cost EXCEPT !.due = TRUE]
    /\ tariff' = [tariff EXCEPT !.due = tariff.subscribed]
    /\ UNCHANGED <<tz, pat, failures, api, setup>>

UsagePoll ==
    /\ usage.due
    /\ \E request_ok \in BOOLEAN :
        /\ request_ok \/ failures < MaxFailures
        /\ \E readings \in {daily_data("usage", request_ok)} :
           \E cycle \in {UsageCycle(Fetched(usage, readings), readings)} :
              usage' = [cycle EXCEPT !.due = FALSE]
        /\ failures' = IF request_ok THEN failures ELSE failures + 1
    /\ UNCHANGED <<now, tz, pat, ticks, api, cost, tariff, setup>>

CostPoll ==
    /\ cost.due
    /\ \E request_ok \in BOOLEAN :
        /\ request_ok \/ failures < MaxFailures
        /\ \E readings \in {daily_data("cost", request_ok)} :
           \E cycle \in {CostCycle(Fetched(cost, readings), readings)} :
              cost' = [cycle EXCEPT !.due = FALSE]
        /\ failures' = IF request_ok THEN failures ELSE failures + 1
    /\ UNCHANGED <<now, tz, pat, ticks, api, usage, tariff, setup>>

Next == Tick \/ UsagePoll \/ CostPoll

Spec == Init /\ [][Next]_vars

(* The timer of each sensor fires every poll interval and the cycle it     *)
(* starts runs to its end.  A poll that is due stays enabled until it has  *)
(* run and is no longer due once it has, so weak fairness of UsagePoll and *)
(* of CostPoll is stated as: time and again no poll is due.                *)
PollsRun == []<>(~usage.due) /\ []<>(~cost.due)

FairSpec == Spec /\ WF_vars(Tick) /\ PollsRun

----------------------------------------------------------------------------
(* The polling sensors with the Standing and Rate sensors enabled: the     *)
(* coordinator has subscribers and is refreshed every interval.            *)

TariffInit ==
    /\ now \in StartTimes
    /\ tz \in Offsets
    /\ pat \in [1..PatLen -> Units]
    /\ ticks = 0
    /\ failures = 0
    /\ api = <<>>
    /\ usage = NewSensor(NoLatest)
    /\ cost = NewSensor(NoLatest)
    /\ tariff = NewCoordinator(TRUE)
    /\ setup = NoSetup

TariffPoll ==
    /\ tariff.due
    /\ \E request_ok \in BOOLEAN :
        /\ request_ok \/ failures < MaxFailures
        /\ \E value \in Tariffs :
              tariff' = [TariffCycle(tariff, tariff_data(request_ok, value))
                            EXCEPT !.due = FALSE]
        /\ failures' = IF request_ok THEN failures ELSE failures + 1
    /\ UNCHANGED <<now, tz, pat, ticks, api, usage, cost, setup>>

TariffNext == Tick \/ UsagePoll \/ CostPoll \/ TariffPoll

TariffSpec == TariffInit /\ [][TariffNext]_vars

----------------------------------------------------------------------------
(* The call harness: one cycle of each sensor on the readings of an        *)
(* arbitrary list of timestamps returned by the API (sorted or not, with   *)
(* or without repetitions) and an arbitrary latest stored statistic.       *)

RECURSIVE SeqsUpTo(_, _)
SeqsUpTo(S, n) ==
    IF n = 0 THEN {<<>>}
    ELSE LET shorter == SeqsUpTo(S, n - 1) IN
         shorter \cup {Append(s, x) : s \in {t \in shorter : Len(t) = n - 1},
                                      x \in S}

ApiReadings(kind) ==
    Readings([i \in 1..Len(api) |->
                [dt |-> api[i], value |-> RawValue(kind, FeedUnit(api[i]))]])

CallInit ==
    /\ now = 0
    /\ tz \in Offsets
    /\ pat \in [1..PatLen -> Units]
    /\ ticks = 0
    /\ failures = 0
    /\ api \in SeqsUpTo(HarnessTimes, MaxLen)
    /\ \E latest \in {NoLatest} \cup {Latest(p) : p \in Priors} :
        /\ usage = NewSensor(latest)
        /\ cost = NewSensor(latest)
    /\ tariff = NewCoordinator(FALSE)
    /\ setup = NoSetup

UsageCall ==
    /\ usage.due
    /\ usage' = [UsageCycle(usage, ApiReadings("usage")) EXCEPT !.due = FALSE]
    /\ UNCHANGED <<now, tz, pat, ticks, failures, api, cost, tariff, setup>>

CostCall ==
    /\ ~usage.due
    /\ cost.due
    /\ cost' = [CostCycle(cost, ApiReadings("cost")) EXCEPT !.due = FALSE]
    /\ UNCHANGED <<now, tz, pat, ticks, failures, api, usage, tariff, setup>>

CallNext == UsageCall \/ CostCall

CallSpec == CallInit /\ [][CallNext]_vars

----------------------------------------------------------------------------
(* Vocabulary of the properties.  None of it is used by the model above.   *)

Sensor(kind) == IF kind = "usage" THEN usage ELSE cost
Kinds == {"usage", "cost"}

(* the sensor has run an aggregation call *)
Called(s) == s.calls > 0

(* the top of the hour of a wall-clock time *)
HourOf(dt) == (dt \div 60) * 60

KeyAt(h, i) == HourOf(h[i].dt)

Keys(h) == [i \in 1..Len(h) |-> KeyAt(h, i)]

(* the last index of the run of equal keys that holds index i *)
RECURSIVE RunEnd(_, _)
RunEnd(k, i) == IF i < Len(k) /\ k[i + 1] = k[i] THEN RunEnd(k, i + 1) ELSE i

(* <<i, j>>: k[i..j] is a maximal run of equal keys *)
KeyRuns(k) ==
    {<<i, RunEnd(k, i)>> : i \in {n \in 1..Len(k) : n = 1 \/ k[n - 1] # k[n]}}
RunSize(r) == r[2] - r[1] + 1
BigKeyRuns(k) == {r \in KeyRuns(k) : RunSize(r) >= 2}

Runs(h) == KeyRuns(Keys(h))
BigRuns(h) == BigKeyRuns(Keys(h))
Rank(big, r) == Cardinality({q \in big : q[1] <= r[1]})

RECURSIVE RunTotal(_, _, _)
RunTotal(h, i, j) == IF i > j THEN 0 ELSE h[i].state + RunTotal(h, i + 1, j)

TotalOf(latest) == IF latest = NoLatest THEN 0 ELSE latest[1].sum

RECURSIVE StateTotal(_, _)
StateTotal(ret, n) == IF n = 0 THEN 0 ELSE ret[n].state + StateTotal(ret, n - 1)

Sorted(h) == \A i \in 1..(Len(h) - 1) : h[i].dt <= h[i + 1].dt

FirstIndex(h, key) ==
    CHOOSE i \in 1..Len(h) :
        KeyAt(h, i) = key /\ \A n \in 1..(i - 1) : KeyAt(h, n) # key

----------------------------------------------------------------------------
(* C1: a contiguous same-hour run of the readings handed to                *)
(* async_calculate_statistic_data yields a statistic if and only if it     *)
(* holds two or more readings: the statistics returned are, in order, the  *)
(* runs of two or more readings, so the empty list and a single reading    *)
(* return the empty list.                                                  *)
C1_MinimumSamples ==
    \A kind \in Kinds :
        LET s == Sensor(kind)
            big == BigRuns(s.handed)
        IN
        Called(s) =>
            /\ Len(s.ret) = Cardinality(big)
            /\ \A r \in big :
                  s.ret[Rank(big, r)].start = KeyAt(s.handed, r[1])
            /\ Len(s.handed) < 2 => s.ret = <<>>

C1_Witness ==
    /\ Called(usage)
    /\ Cardinality(Runs(usage.handed)) = 2
    /\ Cardinality(BigRuns(usage.handed)) = 1
    /\ Len(usage.ret) = 1
    /\ usage.prior = Latest(5)

(* C2: state is the sum of the readings of the run, mean * count is that   *)
(* sum, and sum is the prior total (0 without a latest statistic) plus the *)
(* states of the statistics emitted up to and including this one; another  *)
(* prior total p shifts every sum by p and changes nothing else.           *)
C2_SumsAndCarry ==
    \A kind \in Kinds :
        LET s == Sensor(kind)
            h == s.handed
            big == BigRuns(h)
            base == IF kind = "usage"
                    THEN Usage_async_calculate_statistic_data(h, NoLatest)
                    ELSE Mixin_async_calculate_statistic_data(h, NoLatest)
        IN
        Called(s) =>
            /\ \A r \in big :
                LET n == Rank(big, r) IN
                /\ s.ret[n].state = RunTotal(h, r[1], r[2])
                /\ s.ret[n].sum = TotalOf(s.prior) + StateTotal(s.ret, n)
                /\ kind = "cost" =>
                      s.ret[n].mean.num * RunSize(r)
                          = s.ret[n].state * s.ret[n].mean.den
            /\ Len(base) = Len(s.ret)
            /\ \A n \in 1..Len(s.ret) :
                /\ s.ret[n].sum = base[n].sum + TotalOf(s.prior)
                /\ s.ret[n].start = base[n].start
                /\ s.ret[n].state = base[n].state
                /\ kind = "cost" => s.ret[n].mean = base[n].mean

C2_Witness ==
    /\ Called(cost)
    /\ cost.prior = Latest(5)
    /\ Len(cost.ret) = 2
    /\ cost.ret[1].state = 3
    /\ cost.ret[1].mean = [num |-> 3, den |-> 2]
    /\ cost.ret[1].sum = 8
    /\ cost.ret[2].sum = 8 + cost.ret[2].state

(* C5: when the readings are sorted ascending by timestamp, the starts of  *)
(* the statistics are strictly increasing, so no hour is emitted twice,    *)
(* and they follow the order in which the hours first appear in the input. *)
C5_OrderPreserved ==
    \A kind \in Kinds :
        LET s == Sensor(kind) IN
        (Called(s) /\ Sorted(s.handed)) =>
            \A n \in 1..Len(s.ret), m \in 1..Len(s.ret) :
                n < m =>
                    /\ s.ret[n].start < s.ret[m].start
                    /\ FirstIndex(s.handed, s.ret[n].start)
                         < FirstIndex(s.handed, s.ret[m].start)

C5_Witness ==
    /\ Called(usage)
    /\ Sorted(usage.handed)
    /\ Len(usage.ret) = 2
    /\ usage.ret[1].start < usage.ret[2].start

(* the hour bucket, in local time, of the raw reading timestamps the API  *)
(* returned: one minute later, truncated to the hour                       *)
RawKeys == [i \in 1..Len(api) |-> HourOf(api[i] + 1) + tz]

C9_UnsortedTolerated ==
    \A kind \in Kinds :
        LET s == Sensor(kind)
            h == s.historical_states
            big == BigRuns(h)
        IN
        ~s.due =>
            /\ ~s.raised
            /\ Called(s)
            /\ s.handed = h
            /\ \A key \in {KeyAt(h, i) : i \in 1..Len(h)} :
                  Cardinality({n \in 1..Len(s.ret) : s.ret[n].start = key})
                    = Cardinality({r \in big : KeyAt(h, r[1]) = key})
            /\ \A n \in 1..Len(s.ret) :
                  \E i \in 1..Len(h) : s.ret[n].start = KeyAt(h, i)

C9_Witness ==
    /\ ~usage.due
    /\ ~Sorted(usage.handed)
    /\ Len(usage.ret) = 2
    /\ usage.ret[1].start = usage.ret[2].start
    /\ usage.ret[2].sum = TotalOf(usage.prior) + 2 * usage.ret[1].state

(* the other case of C9: an hour with two readings that is not emitted *)
C9_WitnessDropped ==
    /\ ~cost.due
    /\ api = <<600, 660, 630>>
    /\ cost.ret = <<>>

----------------------------------------------------------------------------
(* Properties of the polling sensors *)

NonDecreasing(s) ==
    /\ \A n \in 1..(Len(s.ret) - 1) : s.ret[n + 1].sum >= s.ret[n].sum
    /\ s.ret # <<>> => s.ret[1].sum >= TotalOf(s.prior)

(* C4: the reading values being non-negative, the running totals of one    *)
(* call never decrease, the first is at least the prior total, and the     *)
(* running total carried from call to call never decreases.                *)
C4_Monotonic ==
    [][/\ NonDecreasing(usage')
       /\ NonDecreasing(cost')
       /\ TotalOf(usage'.latest) >= TotalOf(usage.latest)
       /\ TotalOf(cost'.latest) >= TotalOf(cost.latest)]_vars

C4_Witness ==
    /\ cost.calls = 2
    /\ Len(cost.ret) >= 2
    /\ \A i \in 1..Len(cost.handed) : cost.handed[i].state >= 0
    /\ TotalOf(cost.prior) > 0
    /\ cost.ret[1].sum > TotalOf(cost.prior)
    /\ TotalOf(cost.latest) > TotalOf(cost.prior)

(* C10: a cycle whose fetch fails leaves _attr_historical_states and       *)
(* initialised as they were and makes no aggregation call: nothing is      *)
(* handed to the aggregator and the stored statistic stays.                *)
Retained(old, new) ==
    /\ new.historical_states = old.historical_states
    /\ new.initialised = old.initialised
    /\ new.calls = old.calls
    /\ new.handed = old.handed
    /\ new.ret = old.ret
    /\ new.latest = old.latest

C10_FailedFetchRetainsState ==
    [][failures' # failures =>
          /\ Retained(usage, usage')
          /\ Retained(cost, cost')
          /\ usage'.raised \/ cost'.raised]_vars

C10_Witness ==
    /\ failures = 1
    /\ usage.raised
    /\ ~usage.due
    /\ usage.initialised
    /\ usage.calls = 1
    /\ Len(usage.historical_states) >= 2
    /\ usage.handed = usage.historical_states

(* the sum of the two half-hourly readings of the hour that starts at the  *)
(* local time key                                                          *)
FullSum(key) == FeedUnit(key - tz) + FeedUnit(key - tz + 30)

(* the polls of the sensor still to come at or after the time t *)
PollsLeft(s, t) ==
    Cardinality({k \in 0..(MaxTicks - ticks) :
                    (k > 0 \/ s.due) /\ now + 15 * k >= t})

(* the second reading of the hour arrives while the sensor has more polls  *)
(* to come than requests may still fail                                    *)
ArrivesInTime(s, key) ==
    PollsLeft(s, key - tz + 30) > MaxFailures - failures

Completed(s, key) ==
    \E e \in s.emitted : e.start = key /\ e.state = FullSum(key)

(* a call of the sensor has deferred the bucket, and its second reading    *)
(* arrives in time                                                         *)
Deferred(s, key) == key \in s.deferred /\ ArrivesInTime(s, key)

(* the local hours a trailing bucket can have within the modelled time *)
HourKeys == {h * 60 : h \in 9..13}

(* the trailing bucket of the last call, when it holds fewer than two      *)
(* readings, is not in the result of that call                             *)
TrailingOmitted(s) ==
    \A key \in TrailingIncomplete(s.handed) :
        /\ \A n \in 1..Len(s.ret) : s.ret[n].start # key
        /\ TotalOf(s.latest)
             = TotalOf(s.prior) + StateTotal(s.ret, Len(s.ret))

(* C8: a trailing bucket with fewer than two readings is left out of the   *)
(* result and of the running total, and once its second reading has        *)
(* arrived a later polling cycle emits it with the sum of its readings.    *)
C8_DeferredThenCompleted ==
    /\ [](TrailingOmitted(usage) /\ TrailingOmitted(cost))
    /\ [](usage.deferred \cup cost.deferred \subseteq HourKeys)
    /\ \A key \in HourKeys :
          /\ Deferred(usage, key) ~> Completed(usage, key)
          /\ Deferred(cost, key) ~> Completed(cost, key)

C8_Witness ==
    \E key \in usage.deferred :
        /\ Completed(usage, key)
        /\ usage.calls = 2
        /\ \E n \in 1..Len(usage.ret) : usage.ret[n].start = key
        /\ \A n \in 1..Len(usage.prevRet) : usage.prevRet[n].start # key

----------------------------------------------------------------------------
(* C11: once a sensor or the tariff coordinator is initialised, an update  *)
(* cycle at a minute other than 1-5 or 31-35 past the hour performs no     *)
(* fetch and leaves the historical states, respectively the tariff values, *)
(* unchanged.                                                              *)

MinuteOfHour(t) == as_local(t) % 60

UpdateMinutes == (1..5) \cup (31..35)

SensorCycleAt(s, t) == s.due /\ ~t.due

SensorUntouched(s, t) ==
    /\ t.lastTo = s.lastTo
    /\ t.t_from = s.t_from
    /\ t.historical_states = s.historical_states

CoordinatorUntouched ==
    /\ tariff'.fetched_at = tariff.fetched_at
    /\ tariff'.standing_value = tariff.standing_value
    /\ tariff'.rate_value = tariff.rate_value

C11_FetchOnlyInUpdateMinutes ==
    [][MinuteOfHour(now) \notin UpdateMinutes =>
        /\ (usage.initialised /\ SensorCycleAt(usage, usage'))
                => SensorUntouched(usage, usage')
        /\ (cost.initialised /\ SensorCycleAt(cost, cost'))
                => SensorUntouched(cost, cost')
        /\ (tariff.standing_initialised /\ SensorCycleAt(tariff, tariff'))
                => CoordinatorUntouched]_vars

----------------------------------------------------------------------------
(* async_setup_entry: the sensors of every resource of every virtual       *)
(* entity of the account are created and handed to async_add_entities.     *)
(* A resource is identified by its virtual entity and its classifier, a    *)
(* virtual entity by its position in the account.                          *)

MaxEntities == 2    \* setup: number of virtual entities on the account

Classifiers == {"electricity.consumption", "gas.consumption",
                "electricity.consumption.cost", "gas.consumption.cost"}

(* the lists of distinct elements of S *)
RECURSIVE ListsOf(_)
ListsOf(S) ==
    {<<>>} \cup UNION {{<<x>> \o rest : rest \in ListsOf(S \ {x})} : x \in S}

(* what virtual_entity.get_resources returns for the virtual entity ve *)
ResourceLists(ve) ==
    {[n \in 1..Len(list) |-> [virtual_entity |-> ve, classifier |-> list[n]]] :
        list \in ListsOf(Classifiers)}

(* what glowmarkt.get_virtual_entities can return: each virtual entity is  *)
(* given here by the list of its resources                                 *)
Accounts ==
    UNION {{account \in [1..n -> UNION {ResourceLists(ve) : ve \in 1..n}] :
                \A ve \in 1..n :
                    \A k \in 1..Len(account[ve]) :
                        account[ve][k].virtual_entity = ve} :
           n \in 0..MaxEntities}

supply_type(resource) ==
    IF resource.classifier \in {"electricity.consumption",
                                "electricity.consumption.cost"}
    THEN "electricity"
    ELSE IF resource.classifier \in {"gas.consumption",
                                     "gas.consumption.cost"}
         THEN "gas"
         ELSE "unknown"

NewUsage(resource, virtual_entity) ==
    [kind |-> "Usage", resource |-> resource,
     virtual_entity |-> virtual_entity, meter |-> <<>>]

NewStanding(resource, virtual_entity) ==
    [kind |-> "Standing", resource |-> resource,
     virtual_entity |-> virtual_entity, meter |-> <<>>]

NewRate(resource, virtual_entity) ==
    [kind |-> "Rate", resource |-> resource,
     virtual_entity |-> virtual_entity, meter |-> <<>>]

NewCost(resource, virtual_entity) ==
    [kind |-> "Cost", resource |-> resource,
     virtual_entity |-> virtual_entity, meter |-> <<>>]     \* self.meter = None

(* meters[key] = value *)
SetItem(dict, key, value) ==
    [k \in DOMAIN dict \cup {key} |-> IF k = key THEN value ELSE dict[k]]

(* "for resource in resources": the Usage, Standing and Rate sensors *)
RECURSIVE ConsumptionLoop(_, _, _, _)
ConsumptionLoop(entities, meters, resources, virtual_entity) ==
    IF resources = <<>> THEN [entities |-> entities, meters |-> meters]
    ELSE LET resource == Head(resources)
             usage_sensor == NewUsage(resource, virtual_entity)
         IN  IF resource.classifier \in {"electricity.consumption",
                                         "gas.consumption"}
             THEN ConsumptionLoop(
                      entities \o <<usage_sensor,
                                    NewStanding(resource, virtual_entity),
                                    NewRate(resource, virtual_entity)>>,
                      SetItem(meters, resource.classifier, usage_sensor),
                      Tail(resources), virtual_entity)
             ELSE ConsumptionLoop(entities, meters, Tail(resources),
                                  virtual_entity)

(* "for resource in resources": the Cost sensors.  meters[...] raises      *)
(* KeyError when the key is missing, which ends async_setup_entry.         *)
RECURSIVE CostLoop(_, _, _, _)
CostLoop(entities, meters, resources, virtual_entity) ==
    IF resources = <<>> THEN [entities |-> entities, raised |-> FALSE]
    ELSE LET resource == Head(resources)
             cost_sensor == NewCost(resource, virtual_entity)
             key == IF resource.classifier = "gas.consumption.cost"
                    THEN "gas.consumption"
                    ELSE "electricity.consumption"
         IN  IF resource.classifier \in {"gas.consumption.cost",
                                         "electricity.consumption.cost"}
             THEN IF key \notin DOMAIN meters
                  THEN [entities |-> entities, raised |-> TRUE]
                  ELSE CostLoop(
                           Append(entities,
                                  [cost_sensor EXCEPT !.meter = <<meters[key]>>]),
                           meters, Tail(resources), virtual_entity)
             ELSE CostLoop(entities, meters, Tail(resources), virtual_entity)

SetupInit ==
    /\ now = 0
    /\ tz = 0
    /\ pat = [n \in 1..PatLen |-> 1]
    /\ ticks = 0
    /\ failures = 0
    /\ api = <<>>
    /\ usage = NewSensor(NoLatest)
    /\ cost = NewSensor(NoLatest)
    /\ tariff = NewCoordinator(FALSE)
    /\ \E account \in Accounts :
        setup = [pc |-> "get_virtual_entities",
                 account |-> account,       \* the account, as the API has it
                 virtual_entities |-> <<>>,
                 index |-> 1,               \* position in virtual_entities
                 resources |-> <<>>,
                 entities |-> <<>>,
                 meters |-> <<>>,
                 added |-> <<>>]            \* handed to async_add_entities

(* a failed request is logged and leaves virtual_entities empty *)
GetVirtualEntities ==
    /\ setup.pc = "get_virtual_entities"
    /\ \E request_ok \in BOOLEAN :
        setup' = [setup EXCEPT
                    !.virtual_entities = IF request_ok THEN setup.account
                                         ELSE <<>>,
                    !.pc = "get_resources"]
    /\ UNCHANGED <<now, tz, pat, ticks, failures, api, usage, cost, tariff>>

(* the first half of the body of "for virtual_entity in virtual_entities": *)
(* a failed request is logged and leaves resources empty                   *)
CreateUsageSensors ==
    /\ setup.pc = "get_resources"
    /\ setup.index <= Len(setup.virtual_entities)
    /\ \E request_ok \in BOOLEAN :
        LET resources == IF request_ok
                         THEN setup.virtual_entities[setup.index]
                         ELSE <<>>
            looped == ConsumptionLoop(setup.entities, setup.meters, resources,
                                      setup.index)
        IN  setup' = [setup EXCEPT !.resources = resources,
                                   !.entities = looped.entities,
                                   !.meters = looped.meters,
                                   !.pc = "cost_sensors"]
    /\ UNCHANGED <<now, tz, pat, ticks, failures, api, usage, cost, tariff>>

(* the second half of the body *)
CreateCostSensors ==
    /\ setup.pc = "cost_sensors"
    /\ LET looped == CostLoop(setup.entities, setup.meters, setup.resources,
                              setup.index)
       IN  setup' = [setup EXCEPT
                        !.entities = looped.entities,
                        !.index = IF looped.raised THEN @ ELSE @ + 1,
                        !.pc = IF looped.raised THEN "raised"
                               ELSE "get_resources"]
    /\ UNCHANGED <<now, tz, pat, ticks, failures, api, usage, cost, tariff>>

AddEntities ==
    /\ setup.pc = "get_resources"
    /\ setup.index > Len(setup.virtual_entities)
    /\ setup' = [setup EXCEPT !.added = setup.entities, !.pc = "done"]
    /\ UNCHANGED <<now, tz, pat, ticks, failures, api, usage, cost, tariff>>

SetupNext ==
    GetVirtualEntities \/ CreateUsageSensors \/ CreateCostSensors \/ AddEntities

SetupSpec == SetupInit /\ [][SetupNext]_vars

----------------------------------------------------------------------------
(* C12: for every account, every Cost sensor created by async_setup_entry  *)
(* has as its meter the Usage sensor of the same supply type of the same   *)
(* virtual entity, and setup never fails while creating a Cost sensor.     *)

MeterOfOwnEntity(sensor) ==
    /\ sensor.meter # <<>>
    /\ sensor.meter[1].kind = "Usage"
    /\ sensor.meter[1].virtual_entity = sensor.virtual_entity
    /\ supply_type(sensor.meter[1].resource) = supply_type(sensor.resource)

C12_CostMeterOfOwnEntity ==
    /\ setup.pc # "raised"
    /\ \A n \in 1..Len(setup.entities) :
          setup.entities[n].kind = "Cost"
              => MeterOfOwnEntity(setup.entities[n])

(* the part of C12 about the meter alone: setup runs to its end and a      *)
(* Cost sensor holds the Usage sensor of another virtual entity            *)
C12_MeterOfOtherEntity ==
    setup.pc = "done"
        => \A n \in 1..Len(setup.added) :
              setup.added[n].kind = "Cost"
                  => MeterOfOwnEntity(setup.added[n])

====
